---------------------------- MODULE Spec2Model ----------------------------
(***************************************************************************)
(* A model of constellation-viewer: the command-line entry point (main.py),*)
(* the location detector, the star catalog, the sky calculator and the     *)
(* renderer that turns star positions into drawing primitives.             *)
(*                                                                         *)
(* Number representation (the program computes with floats):               *)
(*   angles of stars and tables        whole degrees                       *)
(*   ra / dec of catalog records       millidegrees  (165.931 -> 165931)   *)
(*   latitude / longitude              1e-4 degrees  (40.7128 -> 407128)   *)
(*   magnitudes                        tenths        (1.8 -> 18)           *)
(*   plot coordinates, radii, sin, tan thousandths   (1.1 -> 1100)         *)
(*   star sizes                        sixtieths     (8 -> 480)            *)
(***************************************************************************)
EXTENDS Integers, Sequences, FiniteSets, TLC

\* ------------------------------------------------------------------------
\* Bounds of the model
\* ------------------------------------------------------------------------

\* the ambient clock takes the instants 1..MaxClock
MaxClock == 2
\* get_horizon_circle is applied to num_points in 0..MaxNumPoints
MaxNumPoints == 12
\* calculate_star_size is applied to magnitudes -MaxMag10..MaxMag10+60 (tenths)
MaxMag10 == 40

\* ------------------------------------------------------------------------
\* State
\* ------------------------------------------------------------------------

VARIABLES
    pc,             \* where control is: in main, in render_sky, or finished
    args,           \* main: the argparse namespace
    detector,       \* main: the LocationDetector object
    locals,         \* main: the locals latitude, longitude, city_name, time
    exit_status,    \* the process exit status, once the process has ended
    clock,          \* the ambient clock: datetime.now reads 60 * clock or later
    frame,          \* render_sky: its arguments and the resolved time
    catalog,        \* render_sky: the StarCatalog it constructed
    positions,      \* render_sky: the dict from calculate_star_positions
    ax,             \* render_sky: the primitives drawn on the axes, in order
    saved,          \* the path plt.savefig wrote the figure to ("" if none)
    raised,         \* the exception that left render_sky or main ("" if none)
    sky_seen,       \* the values of the horizontal transform read so far
    calls,          \* how many times render_sky has been entered
    history,        \* one record per finished render_sky call
    fn,             \* the pure function applied last ("" if none)
    fn_arg,         \* its argument
    fn_ret          \* its result

vars == << pc, args, detector, locals, exit_status, clock, frame, catalog,
           positions, ax, saved, raised, sky_seen, calls, history,
           fn, fn_arg, fn_ret >>

\* ------------------------------------------------------------------------
\* Optional values (Python's None)
\* ------------------------------------------------------------------------

None == [some |-> FALSE, v |-> 0]
Some(x) == [some |-> TRUE, v |-> x]

\* ------------------------------------------------------------------------
\* numpy trigonometry on the angles the model uses, in thousandths
\* ------------------------------------------------------------------------

\* sin of 0, 15, ..., 90 degrees
SinQ == <<0, 259, 500, 707, 866, 966, 1000>>

\* np.sin(np.radians(deg)) for deg a multiple of 15
Sin1000(deg) ==
    LET d == deg % 360
    IN  IF d <= 90 THEN SinQ[(d \div 15) + 1]
        ELSE IF d <= 180 THEN SinQ[((180 - d) \div 15) + 1]
        ELSE IF d <= 270 THEN 0 - SinQ[((d - 180) \div 15) + 1]
        ELSE 0 - SinQ[((360 - d) \div 15) + 1]

\* np.cos(np.radians(deg)) for deg a multiple of 15
Cos1000(deg) == Sin1000(deg + 90)

\* np.tan at pi/2 is a large finite float (1.6e16), not an error and not inf;
\* any value far above the plot limit stands for it
TanHuge == 30000

\* tan of 0, 15, ..., 90 degrees
TanQ == <<0, 268, 577, 1000, 1732, 3732, TanHuge>>

\* np.tan(zenith_distance / 2) for zenith_distance = 90 - altitude degrees,
\* altitude a multiple of 30 in -90..90
TanHalf1000(zenith_distance) == TanQ[(zenith_distance \div 30) + 1]

\* ------------------------------------------------------------------------
\* sky_calculator.py / sky_renderer.py : stereographic projection
\* ------------------------------------------------------------------------

\* SkyCalculator.project_to_stereographic(altitude, azimuth) -> <<x, y>>
project_to_stereographic_orthographic(altitude, azimuth) ==
    LET r == Cos1000(altitude)
    IN  << (r * Sin1000(azimuth)) \div 1000, (r * Cos1000(azimuth)) \div 1000 >>

project_to_stereographic(altitude, azimuth) ==
    LET zenith_distance == 90 - altitude
        r == TanHalf1000(zenith_distance)
    IN  << (r * Sin1000(azimuth)) \div 1000, (r * Cos1000(azimuth)) \div 1000 >>

\* SkyRenderer.project_star_position(altitude, azimuth) -> <<x, y>>
project_star_position(altitude, azimuth) ==
    LET zenith_distance == 90 - altitude
        r == TanHalf1000(zenith_distance)
    IN  << (r * Sin1000(azimuth)) \div 1000, (r * Cos1000(azimuth)) \div 1000 >>

\* ------------------------------------------------------------------------
\* sky_renderer.py : star sizes
\* ------------------------------------------------------------------------

min_size == 1
max_size == 8
magnitude_range == 6

Min(a, b) == IF a < b THEN a ELSE b
Max(a, b) == IF a > b THEN a ELSE b

\* SkyRenderer.calculate_star_size(magnitude): magnitude in tenths, the
\* result in sixtieths:  max_size - (mag / magnitude_range) * size_range
calculate_star_size_noclamp(magnitude) ==
    LET size_range == max_size - min_size
    IN  60 * max_size - ((magnitude * size_range * 6) \div magnitude_range)

calculate_star_size(magnitude) ==
    LET mag == Max(0, Min(magnitude, 10 * magnitude_range))
        size_range == max_size - min_size
    IN  60 * max_size - ((mag * size_range * 6) \div magnitude_range)


\* ------------------------------------------------------------------------
\* sky_calculator.py : get_horizon_circle
\* ------------------------------------------------------------------------

\* the num_points for which every sampled azimuth is a multiple of 15 degrees
NumPointsSet ==
    {n \in 0..MaxNumPoints :
        n <= 1 \/ (360 % (n - 1) = 0 /\ (360 \div (n - 1)) % 15 = 0)}

\* np.linspace(0, 360, num_points), whose endpoint defaults to True: the
\* samples are start + i * (stop - start) / (num_points - 1)
linspace_endpoint_excluded(start, stop, num) ==
    [i \in 1..num |-> start + ((i - 1) * (stop - start)) \div num]

linspace(start, stop, num) ==
    [i \in 1..num |->
        IF num = 1 THEN start
        ELSE start + ((i - 1) * (stop - start)) \div (num - 1)]

\* SkyCalculator.get_horizon_circle(num_points) -> (x_coords, y_coords); the
\* local azimuths is kept beside the two lists returned
get_horizon_circle(num_points) ==
    LET azimuths == linspace(0, 360, num_points)
    IN  [azimuths |-> azimuths,
         x_coords |-> [i \in 1..num_points |->
                          project_to_stereographic(0, azimuths[i])[1]],
         y_coords |-> [i \in 1..num_points |->
                          project_to_stereographic(0, azimuths[i])[2]]]

\* SkyCalculator.get_cardinal_directions(): a dict, in insertion order
get_cardinal_directions ==
    << <<"North", 0>>, <<"East", 90>>, <<"South", 180>>, <<"West", 270>> >>

\* ------------------------------------------------------------------------
\* star_catalog.py : the embedded tables
\* ------------------------------------------------------------------------

StarRec(ra, dec, magnitude, hip_id) ==
    [ra |-> ra, dec |-> dec, magnitude |-> magnitude, hip_id |-> hip_id]

\* A Python dict: its keys in insertion order and the value of each key
NoValues == [id \in {} |-> StarRec(0, 0, 0, 0)]
EmptyDict == [keys |-> <<>>, val |-> NoValues]

\* d[k] = v
DictSet(d, k, v) ==
    [keys |-> IF k \in DOMAIN d.val THEN d.keys ELSE Append(d.keys, k),
     val  |-> [j \in DOMAIN d.val \cup {k} |-> IF j = k THEN v ELSE d.val[j]]]

\* the loop  for ... : self.stars[hip_id] = {...}  over a sequence of rows
RECURSIVE InsertRows(_, _)
InsertRows(d, rows) ==
    IF rows = <<>> THEN d
    ELSE InsertRows(DictSet(d, Head(rows).hip_id, Head(rows)), Tail(rows))

\* StarCatalog.create_sample_stars: the sample_stars dict literal
sample_stars_without_54061 ==
    << StarRec(165931, 61751, 18, 50801),
       StarRec(165460, 56382, 24, 53910),
       StarRec(178457, 53695, 24, 58001),
       StarRec(183856, 57032, 33, 59774),
       StarRec(193507, 55960, 18, 62956),
       StarRec(200981, 54925, 23, 65378),
       StarRec(206885, 49313, 19, 67301),
       StarRec(88793, 7407, 4, 25336),
       StarRec(81283, 6350, 16, 25930),
       StarRec(84053, -1202, 17, 26207),
       StarRec(78634, -8202, 1, 27989),
       StarRec(86939, -9670, 21, 28716),
       StarRec(9182, 59150, 23, 3179),
       StarRec(14177, 56537, 22, 6686),
       StarRec(14177, 60717, 25, 11415),
       StarRec(23396, 57815, 27, 14404),
       StarRec(28599, 63670, 34, 21609) >>

sample_stars ==
    << StarRec(165931, 61751, 18, 50801),
       StarRec(165460, 56382, 24, 53910),
       StarRec(178457, 53695, 24, 58001),
       StarRec(183856, 57032, 33, 59774),
       StarRec(193507, 55960, 18, 62956),
       StarRec(200981, 54925, 23, 65378),
       StarRec(206885, 49313, 19, 67301),
       StarRec(166079, 61751, 18, 54061),
       StarRec(88793, 7407, 4, 25336),
       StarRec(81283, 6350, 16, 25930),
       StarRec(84053, -1202, 17, 26207),
       StarRec(78634, -8202, 1, 27989),
       StarRec(86939, -9670, 21, 28716),
       StarRec(9182, 59150, 23, 3179),
       StarRec(14177, 56537, 22, 6686),
       StarRec(14177, 60717, 25, 11415),
       StarRec(23396, 57815, 27, 14404),
       StarRec(28599, 63670, 34, 21609) >>

\* d.setdefault(k, v) for every row: a key already present keeps its value
RECURSIVE InsertMissingRows(_, _)
InsertMissingRows(d, rows) ==
    IF rows = <<>> THEN d
    ELSE InsertMissingRows(IF Head(rows).hip_id \in DOMAIN d.val THEN d
                           ELSE DictSet(d, Head(rows).hip_id, Head(rows)),
                           Tail(rows))

\* StarCatalog.create_sample_stars(): every sample star is written into
\* self.stars
create_sample_stars_keeping_rows(stars) == InsertMissingRows(stars, sample_stars)
create_sample_stars(stars) == InsertRows(stars, sample_stars)

\* StarCatalog.load_constellation_data: the constellations dict, in
\* insertion order
load_constellation_data ==
    << [name |-> "Ursa Major",
        lines |-> << <<50801, 53910>>, <<53910, 58001>>, <<58001, 59774>>,
                     <<59774, 62956>>, <<62956, 65378>>, <<65378, 67301>>,
                     <<59774, 54061>> >>],
       [name |-> "Orion",
        lines |-> << <<25336, 25930>>, <<27989, 28716>>, <<25930, 26207>>,
                     <<26207, 25336>>, <<26207, 27989>> >>],
       [name |-> "Cassiopeia",
        lines |-> << <<3179, 6686>>, <<6686, 11415>>, <<11415, 14404>>,
                     <<14404, 21609>> >>] >>

\* The bright rows (magnitude < 6.0) a remote Hipparcos load can deliver, in
\* row order: the model's bounded choice of remote datasets.  A declination
\* of 100 degrees is a malformed celestial point.
RemoteDatasets ==
    { <<>>,
      << StarRec(165931, 61751, 18, 50801), StarRec(14177, -56537, -5, 53910),
         StarRec(24429, -57237, 5, 58001) >>,
      << StarRec(165460, 56382, 24, 53910), StarRec(88793, 7407, 59, 58001) >>,
      << StarRec(165931, 61751, 18, 50801), StarRec(165460, 100000, 24, 53910) >> }

\* The rows already inserted when a remote load fails part-way
PartialDatasets ==
    { <<>>,
      << StarRec(14177, 56537, 30, 50801), StarRec(88793, 7407, 59, 99999) >> }

\* StarCatalog.load_hipparcos_catalog: the rows are inserted into self.stars
\* one by one; an exception at any step is caught and create_sample_stars
\* writes the sample stars over whatever was inserted so far
load_hipparcos_catalog(stars, ok, rows) ==
    IF ok THEN InsertRows(stars, rows)
    ELSE create_sample_stars(InsertRows(stars, rows))

\* StarCatalog.__init__ and load_data -> the catalog object
StarCatalog(ok, rows) ==
    [stars |-> load_hipparcos_catalog(EmptyDict, ok, rows),
     constellations |-> load_constellation_data]

\* except Exception as e: the handler takes the exception, nothing propagates
ExceptException(exc) == ""

\* the exception that leaves load_hipparcos_catalog ("" for none): whatever
\* the try block raises is caught at line 50, and the handler's print and
\* create_sample_stars raise nothing
load_hipparcos_catalog_raises(ok) ==
    IF ok THEN "" ELSE ExceptException("Exception")

\* the exception that leaves load_data and so the constructor: an exception
\* out of load_hipparcos_catalog would reach the handler at line 23, which
\* calls create_sample_data, a method the class does not define
load_data_raises(ok) ==
    IF load_hipparcos_catalog_raises(ok) # "" THEN "AttributeError" ELSE ""

\* the outcomes of the remote load during one catalog construction
LoadOutcomes ==
    {[ok |-> TRUE, rows |-> r] : r \in RemoteDatasets} \cup
    {[ok |-> FALSE, rows |-> r] : r \in PartialDatasets}

\* ------------------------------------------------------------------------
\* sky_calculator.py : the observer and the transform to the horizon
\* ------------------------------------------------------------------------

\* astropy's Latitude, used by EarthLocation(lat=...) and by SkyCoord(dec=...),
\* raises ValueError for an angle outside -90..90 degrees
LatitudeUnchecked(lat) == TRUE
LatitudeInRange(lat) == lat >= -900000 /\ lat <= 900000
DeclinationInRange(dec) == dec >= -90000 /\ dec <= 90000

\* SkyCalculator.__init__(latitude, longitude): TRUE iff the constructor
\* returns (EarthLocation accepted the latitude)
SkyCalculator_init_ok(latitude, longitude) == LatitudeInRange(latitude)

\* The horizontal points the transform can return, <<altitude, azimuth>>:
\* above the horizon, at the zenith, on the horizon, below it inside the
\* plot limit, below it outside the plot limit, at the nadir
HorizontalPoints ==
    { <<30, 90>>, <<90, 0>>, <<0, 180>>, <<-30, 270>>, <<-60, 45>>, <<-90, 0>> }

\* The transform is a function of (ra, dec, location, time).  The model
\* resolves the celestial sphere into three cells, the bands of declination
\* 90 degrees wide centred on the equator, and the stars of one cell share
\* their horizontal point.
SkyCell(ra, dec) == (dec + 135000) \div 90000

SkyKey(ra, dec, latitude, longitude, time) ==
    << SkyCell(ra, dec), latitude, longitude, time >>

\* SkyCalculator.celestial_to_horizontal(ra, dec, time) -> <<alt, az>>, read
\* from the sky function `sky`
celestial_to_horizontal(sky, latitude, longitude, ra, dec, time) ==
    sky[SkyKey(ra, dec, latitude, longitude, time)]

\* a celestial point (ra, dec) of each cell
CellCentre(cell) == << 0, 90000 * (cell - 1) >>

\* SkyCalculator.get_zenith_ra_dec(time) -> <<ra, dec>>: the point at
\* altitude 90, azimuth 0 of the frame AltAz(obstime=Time(time),
\* location=self.location), transformed to 'icrs' by the inverse of the
\* transform that celestial_to_horizontal applies
get_zenith_ra_dec_at_epoch(sky, latitude, longitude, time) ==
    CellCentre(CHOOSE cell \in 0..2 :
                  sky[<< cell, latitude, longitude, 0 >>] = <<90, 0>>)

get_zenith_ra_dec(sky, latitude, longitude, time) ==
    CellCentre(CHOOSE cell \in 0..2 :
                  sky[<< cell, latitude, longitude, time >>] = <<90, 0>>)

\* the keys of the sky function that calculate_star_positions reads
KeysRead(stars, latitude, longitude, time) ==
    { SkyKey(stars.val[id].ra, stars.val[id].dec, latitude, longitude, time) :
        id \in DOMAIN stars.val }

\* SkyCalculator.calculate_star_positions raises iff SkyCoord rejects the
\* declination of some star
calculate_star_positions_raises(stars) ==
    \E id \in DOMAIN stars.val : ~DeclinationInRange(stars.val[id].dec)

\* 'visible': altitude > 0
visible_below_horizon(altitude) == altitude >= -30
visible_whatever_altitude(altitude) == TRUE
visible(altitude) == altitude > 0

\* SkyCalculator.calculate_star_positions(stars, time) -> star_positions
calculate_star_positions(sky, latitude, longitude, stars, time) ==
    [keys |-> stars.keys,
     val  |-> [id \in DOMAIN stars.val |->
                LET ra  == stars.val[id].ra
                    dec == stars.val[id].dec
                    h   == celestial_to_horizontal(sky, latitude, longitude,
                                                   ra, dec, time)
                IN  [ra |-> ra, dec |-> dec,
                     altitude |-> h[1], azimuth |-> h[2],
                     magnitude |-> stars.val[id].magnitude,
                     visible |-> visible(h[1])]]]

\* ------------------------------------------------------------------------
\* sky_renderer.py : the drawing primitives handed to matplotlib
\* ------------------------------------------------------------------------

\* plt.subplots(facecolor=background) and the axes set-up
Figure == [kind |-> "figure", text |-> "#000011", at |-> <<-2000, 2000>>,
           note |-> ""]
\* patches.Circle((0, 0), r, ...) added with ax.add_patch
Circle(r, linestyle) == [kind |-> "patch", text |-> "", at |-> <<0, 0, r>>,
                         note |-> linestyle]
\* ax.text(x, y, content, ...)
Text(x, y, content, extra) == [kind |-> "text", text |-> content,
                               at |-> <<x, y>> \o extra, note |-> ""]
\* ax.scatter(x, y, s=s, marker=marker)
Scatter(x, y, s, marker) == [kind |-> "scatter", text |-> marker,
                             at |-> <<x, y, s>>, note |-> ""]
\* ax.plot([x1, x2], [y1, y2], ...)
Plot(x1, y1, x2, y2) == [kind |-> "plot", text |-> "",
                         at |-> <<x1, y1, x2, y2>>, note |-> ""]

\* SkyRenderer.create_figure(): a new figure and new axes
create_figure_reusing_axes == ax \o << Figure >>
create_figure == << Figure >>

\* the altitude circles of draw_horizon_and_grid: for alt in [30, 60]
RECURSIVE altitude_circles(_)
altitude_circles(alts) ==
    IF alts = <<>> THEN <<>>
    ELSE LET zenith_distance == 90 - Head(alts)
             r == TanHalf1000(zenith_distance)
         IN  (IF r < 2000 THEN << Circle(r, "--") >> ELSE <<>>)
             \o altitude_circles(Tail(alts))

\* the cardinal labels of draw_horizon_and_grid
RECURSIVE cardinal_labels_on_horizon(_)
cardinal_labels_on_horizon(dirs) ==
    IF dirs = <<>> THEN <<>>
    ELSE LET p == project_to_stereographic(0, Head(dirs)[2])
         IN  << Text(p[1], p[2], Head(dirs)[1], <<>>) >>
             \o cardinal_labels_on_horizon(Tail(dirs))

RECURSIVE cardinal_labels(_)
cardinal_labels(dirs) ==
    IF dirs = <<>> THEN <<>>
    ELSE LET p == project_to_stereographic(0, Head(dirs)[2])
             x == (p[1] * 11) \div 10
             y == (p[2] * 11) \div 10
         IN  << Text(x, y, Head(dirs)[1], <<>>) >> \o cardinal_labels(Tail(dirs))

\* SkyRenderer.draw_horizon_and_grid(ax, sky_calc): what it adds to ax
draw_horizon_and_grid_labels_first ==
    cardinal_labels(get_cardinal_directions)
    \o << Circle(1000, "-") >>
    \o altitude_circles(<<30, 60>>)

draw_horizon_and_grid ==
    << Circle(1000, "-") >>
    \o altitude_circles(<<30, 60>>)
    \o cardinal_labels(get_cardinal_directions)

\* one iteration of the loop of draw_stars
draw_star_half_limit(star_data) ==
    IF ~star_data.visible THEN <<>>
    ELSE LET p == project_star_position(star_data.altitude, star_data.azimuth)
             x == p[1]
             y == p[2]
         IN  IF 4 * (x * x + y * y) > 1000000 THEN <<>>
             ELSE LET size == calculate_star_size(star_data.magnitude)
                  IN  << Scatter(x, y, size * size, "*") >>

draw_star_any_altitude(star_data) ==
    LET p == project_star_position(star_data.altitude, star_data.azimuth)
        x == p[1]
        y == p[2]
    IN  IF x * x + y * y > 4000000 THEN <<>>
        ELSE LET size == calculate_star_size(star_data.magnitude)
             IN  << Scatter(x, y, size * size, "*") >>

draw_star(star_data) ==
    IF ~star_data.visible THEN <<>>
    ELSE LET p == project_star_position(star_data.altitude, star_data.azimuth)
             x == p[1]
             y == p[2]
         IN  IF x * x + y * y > 4000000 THEN <<>>
             ELSE LET size == calculate_star_size(star_data.magnitude)
                  IN  << Scatter(x, y, size * size, "*") >>

\* SkyRenderer.draw_stars(ax, star_positions): what it adds to ax
RECURSIVE draw_stars_from(_, _)
draw_stars_from(keys, star_positions) ==
    IF keys = <<>> THEN <<>>
    ELSE draw_star(star_positions.val[Head(keys)])
         \o draw_stars_from(Tail(keys), star_positions)

draw_stars(star_positions) == draw_stars_from(star_positions.keys, star_positions)

\* one iteration of the inner loop of draw_constellation_lines
draw_line_first_visible(line, star_positions) ==
    LET star1_id == line[1]
        star2_id == line[2]
    IN  IF star1_id \in DOMAIN star_positions.val
           /\ star2_id \in DOMAIN star_positions.val
           /\ star_positions.val[star1_id].visible
        THEN LET p1 == project_star_position(
                           star_positions.val[star1_id].altitude,
                           star_positions.val[star1_id].azimuth)
                 p2 == project_star_position(
                           star_positions.val[star2_id].altitude,
                           star_positions.val[star2_id].azimuth)
             IN  << Plot(p1[1], p1[2], p2[1], p2[2]) >>
        ELSE <<>>

draw_line(line, star_positions) ==
    LET star1_id == line[1]
        star2_id == line[2]
    IN  IF star1_id \in DOMAIN star_positions.val
           /\ star2_id \in DOMAIN star_positions.val
           /\ star_positions.val[star1_id].visible
           /\ star_positions.val[star2_id].visible
        THEN LET p1 == project_star_position(
                           star_positions.val[star1_id].altitude,
                           star_positions.val[star1_id].azimuth)
                 p2 == project_star_position(
                           star_positions.val[star2_id].altitude,
                           star_positions.val[star2_id].azimuth)
             IN  << Plot(p1[1], p1[2], p2[1], p2[2]) >>
        ELSE <<>>

\* the inner loop: for line in lines
RECURSIVE draw_lines_until_unknown(_, _)
draw_lines_until_unknown(lines, star_positions) ==
    IF lines = <<>> THEN <<>>
    ELSE IF Head(lines)[1] \notin DOMAIN star_positions.val
            \/ Head(lines)[2] \notin DOMAIN star_positions.val
         THEN <<>>
         ELSE draw_line(Head(lines), star_positions)
              \o draw_lines_until_unknown(Tail(lines), star_positions)

RECURSIVE draw_lines(_, _)
draw_lines(lines, star_positions) ==
    IF lines = <<>> THEN <<>>
    ELSE draw_line(Head(lines), star_positions)
         \o draw_lines(Tail(lines), star_positions)

\* SkyRenderer.draw_constellation_lines(ax, star_positions, catalog): what it
\* adds to ax; the outer loop over catalog.get_all_constellations()
RECURSIVE draw_constellation_lines(_, _)
draw_constellation_lines(constellations, star_positions) ==
    IF constellations = <<>> THEN <<>>
    ELSE draw_lines(Head(constellations).lines, star_positions)
         \o draw_constellation_lines(Tail(constellations), star_positions)

\* f"{latitude:.2f}": a coordinate in 1e-4 degrees rounded to hundredths
Format2f(coord) == (coord + 50) \div 100
\* time.strftime('%Y-%m-%d %H:%M UTC'): an instant in seconds cut to minutes
FormatMinutes(time) == time \div 60

\* SkyRenderer.add_title_and_info(ax, latitude, longitude, time, city_name):
\* what it adds to ax
add_title_and_info(latitude, longitude, time, city_name) ==
    << [kind |-> "text", text |-> "Night Sky View",
        at |-> <<0, 2300, Format2f(latitude), Format2f(longitude),
                 FormatMinutes(time)>>,
        note |-> city_name],
       Scatter(0, 0, 20, "+"),
       Text(0, -100, "Zenith", <<>>) >>

\* ------------------------------------------------------------------------
\* location_detector.py
\* ------------------------------------------------------------------------

\* LocationDetector.__init__ ("" stands for a None string; `tried` lists the
\* methods attempted so far and `returned` is what detect_location returned)
LocationDetector ==
    [latitude |-> None, longitude |-> None, city |-> "", accuracy |-> "",
     tried |-> <<>>, returned |-> ""]

\* the coordinates the location services report
Detected == [lat |-> 515074, lon |-> -1278]

\* what one call of a detection method gives back: the detector after it and
\* the value returned ("True", "False") or the exception that escaped
Outcome(d, ret) == [det |-> [d EXCEPT !.returned = ret], ret |-> ret]

\* LocationDetector.get_location_macos_wifi; out is what the helper process
\* printed: "ok" (two coordinates) or "fail" (anything else, or an exception)
get_location_macos_wifi(d, out) ==
    LET d1 == [d EXCEPT !.tried = Append(@, "macos")]
    IN  IF out = "ok"
        THEN Outcome([d1 EXCEPT !.latitude = Some(Detected.lat),
                                !.longitude = Some(Detected.lon)], "True")
        ELSE Outcome(d1, "False")

\* the responses of the three services, in the order they are asked:
\*   "error"  no usable answer (exception, status not 200, keys missing)
\*   "ok"     coordinates present
\*   "null"   the success condition holds but the coordinates are null
\*   "half"   ipinfo only: 'loc' is "<number>,<not a number>"
IpResponses ==
    { r \in [1..3 -> {"error", "ok", "null", "half"}] :
        /\ r[1] # "half" /\ r[2] # "half" /\ r[3] # "null" }

\* the loop  for service in services  of get_location_ip_geolocation, from
\* service number i on
RECURSIVE ip_services(_, _, _)
ip_services(d, responses, i) ==
    IF i > 3 THEN Outcome(d, "False")
    ELSE IF responses[i] = "ok"
         THEN Outcome([d EXCEPT !.latitude = Some(Detected.lat),
                                !.longitude = Some(Detected.lon),
                                !.city = "London",
                                !.accuracy = "IP-based (~city level)"], "True")
    ELSE IF responses[i] = "null"
         THEN Outcome([d EXCEPT !.latitude = None,
                                !.longitude = None,
                                !.city = "",
                                !.accuracy = "IP-based (~city level)"], "True")
    ELSE IF responses[i] = "half"
         THEN ip_services([d EXCEPT !.latitude = Some(Detected.lat)],
                          responses, i + 1)
    ELSE ip_services(d, responses, i + 1)

\* LocationDetector.get_location_ip_geolocation
get_location_ip_geolocation(d, responses) ==
    ip_services([d EXCEPT !.tried = Append(@, "ip")], responses, 1)

\* what the user does at the prompts of get_location_manual_input:
\*   "ok"         two numbers and a city (or an empty line)
\*   "badlat"     the latitude is not a number
\*   "badlon"     the longitude is not a number
\*   "interrupt"  Ctrl-C at the city prompt
\*   "eof"        end of input at the first prompt (EOFError is not caught)
ManualInputs == {"ok", "badlat", "badlon", "interrupt", "eof"}

\* LocationDetector.get_location_manual_input
get_location_manual_input(d, out) ==
    LET d1 == [d EXCEPT !.tried = Append(@, "manual")]
        d2 == [d1 EXCEPT !.latitude = Some(Detected.lat)]
        d3 == [d2 EXCEPT !.longitude = Some(Detected.lon)]
    IN  CASE out = "ok" ->
               Outcome([d3 EXCEPT !.city = "Manual Location",
                                  !.accuracy = "Manual input"], "True")
          [] out = "badlat" -> Outcome(d1, "False")
          [] out = "badlon" -> Outcome(d2, "False")
          [] out = "interrupt" -> Outcome(d3, "False")
          [] OTHER -> Outcome(d1, "EOFError")

\* the environment of one detect_location call
Environments ==
    [darwin : BOOLEAN, macos : {"ok", "fail"}, ip : IpResponses,
     manual : ManualInputs]

\* LocationDetector.detect_location(fallback_to_manual)
detect_location_always_asking(d, env, fallback_to_manual) ==
    LET m == IF env.darwin THEN get_location_macos_wifi(d, env.macos)
             ELSE Outcome(d, "False")
    IN  IF env.darwin /\ m.ret = "True"
        THEN Outcome([m.det EXCEPT !.accuracy = "GPS/WiFi-based (high accuracy)"],
                     "True")
        ELSE LET i == get_location_ip_geolocation(m.det, env.ip)
             IN  IF i.ret = "True" THEN i
                 ELSE get_location_manual_input(i.det, env.manual)

detect_location(d, env, fallback_to_manual) ==
    LET m == IF env.darwin THEN get_location_macos_wifi(d, env.macos)
             ELSE Outcome(d, "False")
    IN  IF env.darwin /\ m.ret = "True"
        THEN Outcome([m.det EXCEPT !.accuracy = "GPS/WiFi-based (high accuracy)"],
                     "True")
        ELSE LET i == get_location_ip_geolocation(m.det, env.ip)
             IN  IF i.ret = "True" THEN i
                 ELSE IF fallback_to_manual
                      THEN get_location_manual_input(i.det, env.manual)
                      ELSE Outcome(i.det, "False")

\* LocationDetector.get_location_info
get_location_info(d) ==
    [latitude |-> d.latitude, longitude |-> d.longitude, city |-> d.city]

\* ------------------------------------------------------------------------
\* main.py : tables and parsing
\* ------------------------------------------------------------------------

\* get_sample_locations()
get_sample_locations ==
    [key \in {"new_york", "london", "tokyo", "sydney", "paris", "cairo",
              "reykjavik", "anchorage"} |->
        CASE key = "new_york"  -> [lat |-> 407128,  lon |-> -740060,  name |-> "New York City"]
          [] key = "london"    -> [lat |-> 515074,  lon |-> -1278,    name |-> "London"]
          [] key = "tokyo"     -> [lat |-> 356762,  lon |-> 1396503,  name |-> "Tokyo"]
          [] key = "sydney"    -> [lat |-> -338688, lon |-> 1512093,  name |-> "Sydney"]
          [] key = "paris"     -> [lat |-> 488566,  lon |-> 23522,    name |-> "Paris"]
          [] key = "cairo"     -> [lat |-> 300444,  lon |-> 312357,   name |-> "Cairo"]
          [] key = "reykjavik" -> [lat |-> 641466,  lon |-> -219426,  name |-> "Reykjavik"]
          [] OTHER             -> [lat |-> 612181,  lon |-> -1499003, name |-> "Anchorage"]]

\* parse_time(time_str): the instant (seconds on the model's time axis), or
\* None where the function prints the format error and exits
parse_time(time_str) ==
    IF time_str = "2024-07-15 22:00:00" THEN Some(0) ELSE None

\* the parsed command lines of the model: the location options ...
NoArgs == [list_locations |-> FALSE, auto_location |-> FALSE, location |-> "",
           lat |-> None, lon |-> None, city |-> "", time |-> "", output |-> ""]

LocationArgs ==
    { NoArgs,
      [NoArgs EXCEPT !.lon = Some(-740060)],
      [NoArgs EXCEPT !.list_locations = TRUE],
      [NoArgs EXCEPT !.auto_location = TRUE],
      [NoArgs EXCEPT !.auto_location = TRUE, !.lat = Some(407128)],
      [NoArgs EXCEPT !.location = "new_york"],
      [NoArgs EXCEPT !.lat = Some(407128), !.lon = Some(-740060)],
      [NoArgs EXCEPT !.lat = Some(407128)],
      [NoArgs EXCEPT !.lat = Some(1000000), !.lon = Some(-740060)] }

\* ... each with no --time, a well-formed one or a malformed one, and
\* --location also with --output
ArgSets ==
    { [a EXCEPT !.time = t] :
        a \in LocationArgs, t \in {"", "2024-07-15 22:00:00", "tomorrow"} }
    \cup { [NoArgs EXCEPT !.location = "new_york", !.output = "sky.png"] }

\* a or b  on strings
Or(a, b) == IF a # "" THEN a ELSE b

\* ------------------------------------------------------------------------
\* Initial states
\* ------------------------------------------------------------------------

NoFrame == [latitude |-> 0, longitude |-> 0, time_arg |-> None, time |-> None,
            city_name |-> "", save_path |-> "", caller |-> ""]
NoCatalog == [stars |-> EmptyDict, constellations |-> <<>>]
NoPositions == [keys |-> <<>>, val |-> [id \in {} |-> 0]]
NoSky == [k \in {} |-> <<0, 0>>]
NoLocals == [latitude |-> None, longitude |-> None, city_name |-> "",
             time |-> None]
InitCommon ==
    /\ detector = LocationDetector
    /\ locals = NoLocals
    /\ exit_status = None
    /\ clock = 1
    /\ frame = NoFrame
    /\ catalog = NoCatalog
    /\ positions = NoPositions
    /\ ax = <<>>
    /\ saved = ""
    /\ raised = ""
    /\ sky_seen = NoSky
    /\ calls = 0
    /\ history = <<>>
    /\ fn = ""
    /\ fn_arg = <<>>
    /\ fn_ret = <<>>

\* the process starts main() with some command line
Init ==
    /\ pc = "main"
    /\ args \in ArgSets
    /\ InitCommon

\* ------------------------------------------------------------------------
\* main.py : main()
\* ------------------------------------------------------------------------

main_vars == << args, detector, locals, exit_status >>
render_vars == << frame, catalog, positions, ax, saved, sky_seen, calls, history >>
fn_vars == << fn, fn_arg, fn_ret >>

\* sys.exit(status), or main returning (status 0)
Exit(status) ==
    /\ pc' = "exit"
    /\ exit_status' = Some(status)

\* datetime.now(timezone.utc): the clock never runs backwards
ReadClock(t) ==
    /\ t \in {60 * k : k \in clock..MaxClock}
    /\ clock' = t \div 60

\* lines 141-145: --list-locations prints the table and returns
ListLocations ==
    /\ pc = "main"
    /\ args.list_locations
    /\ Exit(0)
    /\ UNCHANGED << args, detector, locals, clock, raised >>
    /\ UNCHANGED render_vars /\ UNCHANGED fn_vars

\* lines 151 and 182:  if detector.detect_location():
location_detected_unless_raised(ret) == ret # "EOFError"
location_detected(ret) == ret = "True"

\* lines 150-159 and 181-191: construct a detector, detect, read the result
DetectAndSet ==
    \E env \in Environments :
        LET o == detect_location(LocationDetector, env, TRUE)
            info == get_location_info(o.det)
        IN  /\ detector' = o.det
            /\ IF location_detected(o.ret)
               THEN /\ locals' = [locals EXCEPT
                                    !.latitude = info.latitude,
                                    !.longitude = info.longitude,
                                    !.city_name = Or(info.city,
                                                     "Auto-detected Location")]
                    /\ pc' = "parse_time"
                    /\ UNCHANGED << exit_status, raised >>
               ELSE IF o.ret = "False"
               THEN /\ Exit(1)
                    /\ UNCHANGED << locals, raised >>
               ELSE /\ Exit(1)
                    /\ raised' = o.ret
                    /\ UNCHANGED locals

\* lines 148-159: --auto-location
AutoLocation ==
    /\ pc = "main"
    /\ ~args.list_locations
    /\ args.auto_location
    /\ DetectAndSet
    /\ UNCHANGED << args, clock >>
    /\ UNCHANGED render_vars /\ UNCHANGED fn_vars

\* lines 161-167: --location
PredefinedLocation ==
    /\ pc = "main"
    /\ ~args.list_locations
    /\ ~args.auto_location
    /\ args.location # ""
    /\ LET location_data == get_sample_locations[args.location]
       IN  locals' = [locals EXCEPT !.latitude = Some(location_data.lat),
                                    !.longitude = Some(location_data.lon),
                                    !.city_name = location_data.name]
    /\ pc' = "parse_time"
    /\ UNCHANGED << args, detector, exit_status, clock, raised >>
    /\ UNCHANGED render_vars /\ UNCHANGED fn_vars

\* lines 169-176: --lat (with --lon)
CustomCoordinates ==
    /\ pc = "main"
    /\ ~args.list_locations
    /\ ~args.auto_location
    /\ args.location = ""
    /\ args.lat.some
    /\ IF ~args.lon.some
       THEN /\ Exit(1)
            /\ UNCHANGED locals
       ELSE /\ locals' = [locals EXCEPT !.latitude = args.lat,
                                        !.longitude = args.lon,
                                        !.city_name = Or(args.city,
                                                         "Custom Location")]
            /\ pc' = "parse_time"
            /\ UNCHANGED exit_status
    /\ UNCHANGED << args, detector, clock, raised >>
    /\ UNCHANGED render_vars /\ UNCHANGED fn_vars

\* lines 178-191: no location given
DefaultAutoDetect ==
    /\ pc = "main"
    /\ ~args.list_locations
    /\ ~args.auto_location
    /\ args.location = ""
    /\ ~args.lat.some
    /\ DetectAndSet
    /\ UNCHANGED << args, clock >>
    /\ UNCHANGED render_vars /\ UNCHANGED fn_vars

\* lines 193-206: the time, the renderer, the announcement.  Formatting a
\* latitude or longitude that is None raises TypeError outside the try block.
ResolveTimeAndAnnounce ==
    /\ pc = "parse_time"
    /\ \/ /\ args.time # ""
          /\ parse_time(args.time) = None
          /\ Exit(1)
          /\ UNCHANGED << locals, clock, raised >>
       \/ /\ \/ /\ args.time # ""
                /\ parse_time(args.time) # None
                /\ locals' = [locals EXCEPT !.time = parse_time(args.time)]
                /\ UNCHANGED clock
             \/ /\ args.time = ""
                /\ \E t \in 0..(60 * MaxClock) :
                      /\ ReadClock(t)
                      /\ locals' = [locals EXCEPT !.time = Some(t)]
          /\ IF locals.latitude.some /\ locals.longitude.some
             THEN /\ pc' = "call_render_sky"
                  /\ UNCHANGED << exit_status, raised >>
             ELSE /\ Exit(1)
                  /\ raised' = "TypeError"
    /\ UNCHANGED << args, detector >>
    /\ UNCHANGED render_vars /\ UNCHANGED fn_vars

\* lines 208-216: main calls renderer.render_sky
MainCallsRenderSky ==
    /\ pc = "call_render_sky"
    /\ frame' = [latitude |-> locals.latitude.v,
                 longitude |-> locals.longitude.v,
                 time_arg |-> locals.time,
                 time |-> locals.time,
                 city_name |-> locals.city_name,
                 save_path |-> args.output,
                 caller |-> "main"]
    /\ calls' = calls + 1
    /\ pc' = "render_sky"
    /\ UNCHANGED main_vars
    /\ UNCHANGED << clock, catalog, positions, ax, saved, raised, sky_seen,
                    history >>
    /\ UNCHANGED fn_vars

\* lines 218-222: the figure is reported saved, or shown until closed
MainShow ==
    /\ pc = "main_returned"
    /\ Exit(0)
    /\ UNCHANGED << args, detector, locals, clock, raised >>
    /\ UNCHANGED render_vars /\ UNCHANGED fn_vars

\* lines 224-226: except Exception: print the error, sys.exit(1)
MainExcept ==
    /\ pc = "main_except"
    /\ Exit(1)
    /\ UNCHANGED << args, detector, locals, clock, raised >>
    /\ UNCHANGED render_vars /\ UNCHANGED fn_vars

\* ------------------------------------------------------------------------
\* sky_renderer.py : render_sky, one action per statement group
\* ------------------------------------------------------------------------

\* the record of a finished call
Finished(f, stars, exc, drawn) ==
    [latitude |-> f.latitude, longitude |-> f.longitude,
     time_arg |-> f.time_arg, time |-> f.time.v, city_name |-> f.city_name,
     stars |-> stars, raised |-> exc, ax |-> drawn]

\* an exception leaves render_sky: to main's except clause, or to the caller
Raise(f, stars, exc, drawn) ==
    /\ raised' = exc
    /\ history' = Append(history, Finished(f, stars, exc, drawn))
    /\ pc' = IF f.caller = "main" THEN "main_except" ELSE "idle"

\* lines 292-297: resolve the time, construct the catalog and the calculator
RenderSkyInit ==
    /\ pc = "render_sky"
    /\ \E t \in 0..(60 * MaxClock), load \in LoadOutcomes :
          /\ IF frame.time.some
             THEN t = frame.time.v /\ UNCHANGED clock
             ELSE ReadClock(t)
          /\ frame' = [frame EXCEPT !.time = Some(t)]
          /\ catalog' = StarCatalog(load.ok, load.rows)
          /\ IF SkyCalculator_init_ok(frame.latitude, frame.longitude)
             THEN /\ pc' = "create_figure"
                  /\ UNCHANGED << raised, history >>
             ELSE Raise([frame EXCEPT !.time = Some(t)],
                        StarCatalog(load.ok, load.rows).stars, "ValueError",
                        <<>>)
    /\ UNCHANGED main_vars
    /\ UNCHANGED << positions, ax, saved, sky_seen, calls >>
    /\ UNCHANGED fn_vars

\* line 300
CreateFigure ==
    /\ pc = "create_figure"
    /\ ax' = create_figure
    /\ pc' = "draw_horizon_and_grid"
    /\ UNCHANGED main_vars
    /\ UNCHANGED << clock, frame, catalog, positions, saved, raised, sky_seen,
                    calls, history >>
    /\ UNCHANGED fn_vars

\* line 303
DrawHorizonAndGrid ==
    /\ pc = "draw_horizon_and_grid"
    /\ ax' = ax \o draw_horizon_and_grid
    /\ pc' = "calculate_star_positions"
    /\ UNCHANGED main_vars
    /\ UNCHANGED << clock, frame, catalog, positions, saved, raised, sky_seen,
                    calls, history >>
    /\ UNCHANGED fn_vars

\* lines 306-307: the transform returns, for every star, the value it has
\* for that (cell, location, time): the one read before, or a new one
CalculateStarPositions ==
    /\ pc = "calculate_star_positions"
    /\ LET stars == catalog.stars
           keys == KeysRead(stars, frame.latitude, frame.longitude, frame.time.v)
           new == keys \ DOMAIN sky_seen
       IN  IF calculate_star_positions_raises(stars)
           THEN /\ Raise(frame, stars, "ValueError", ax)
                /\ UNCHANGED << positions, sky_seen >>
           ELSE /\ \E f \in [new -> HorizontalPoints] :
                      sky_seen' = [k \in DOMAIN sky_seen \cup new |->
                                     IF k \in DOMAIN sky_seen THEN sky_seen[k]
                                     ELSE f[k]]
                /\ positions' = calculate_star_positions(
                                    sky_seen', frame.latitude, frame.longitude,
                                    stars, frame.time.v)
                /\ pc' = "draw_stars"
                /\ UNCHANGED << raised, history >>
    /\ UNCHANGED main_vars
    /\ UNCHANGED << clock, frame, catalog, ax, saved, calls >>
    /\ UNCHANGED fn_vars

\* line 310
DrawStars ==
    /\ pc = "draw_stars"
    /\ ax' = ax \o draw_stars(positions)
    /\ pc' = "draw_constellation_lines"
    /\ UNCHANGED main_vars
    /\ UNCHANGED << clock, frame, catalog, positions, saved, raised, sky_seen,
                    calls, history >>
    /\ UNCHANGED fn_vars

\* line 313
DrawConstellationLines ==
    /\ pc = "draw_constellation_lines"
    /\ ax' = ax \o draw_constellation_lines(catalog.constellations, positions)
    /\ pc' = "add_title_and_info"
    /\ UNCHANGED main_vars
    /\ UNCHANGED << clock, frame, catalog, positions, saved, raised, sky_seen,
                    calls, history >>
    /\ UNCHANGED fn_vars

\* line 316
AddTitleAndInfo_at_now ==
    /\ pc = "add_title_and_info"
    /\ \E t \in 0..(60 * MaxClock) :
          /\ ReadClock(t)
          /\ ax' = ax \o add_title_and_info(frame.latitude, frame.longitude,
                                            t, frame.city_name)
    /\ pc' = "save"
    /\ UNCHANGED main_vars
    /\ UNCHANGED << frame, catalog, positions, saved, raised, sky_seen,
                    calls, history >>
    /\ UNCHANGED fn_vars

AddTitleAndInfo ==
    /\ pc = "add_title_and_info"
    /\ ax' = ax \o add_title_and_info(frame.latitude, frame.longitude,
                                      frame.time.v, frame.city_name)
    /\ pc' = "save"
    /\ UNCHANGED main_vars
    /\ UNCHANGED << clock, frame, catalog, positions, saved, raised, sky_seen,
                    calls, history >>
    /\ UNCHANGED fn_vars

\* lines 318-327: save if asked to, and return (fig, ax)
SaveAndReturn ==
    /\ pc = "save"
    /\ saved' = IF frame.save_path # "" THEN frame.save_path ELSE saved
    /\ history' = Append(history, Finished(frame, catalog.stars, "", ax))
    /\ pc' = IF frame.caller = "main" THEN "main_returned" ELSE "idle"
    /\ UNCHANGED main_vars
    /\ UNCHANGED << clock, frame, catalog, positions, ax, raised, sky_seen,
                    calls >>
    /\ UNCHANGED fn_vars

RenderSky ==
    \/ RenderSkyInit
    \/ CreateFigure
    \/ DrawHorizonAndGrid
    \/ CalculateStarPositions
    \/ DrawStars
    \/ DrawConstellationLines
    \/ AddTitleAndInfo
    \/ SaveAndReturn

\* ------------------------------------------------------------------------
\* The program: one run of main()
\* ------------------------------------------------------------------------

Next ==
    \/ ListLocations
    \/ AutoLocation
    \/ PredefinedLocation
    \/ CustomCoordinates
    \/ DefaultAutoDetect
    \/ ResolveTimeAndAnnounce
    \/ MainCallsRenderSky
    \/ RenderSky
    \/ MainShow
    \/ MainExcept

Spec == Init /\ [][Next]_vars

\* ------------------------------------------------------------------------
\* The renderer used as a library: one SkyRenderer, render_sky called
\* repeatedly on it
\* ------------------------------------------------------------------------

InitCompose ==
    /\ pc = "idle"
    /\ args = NoArgs
    /\ InitCommon

\* renderer.render_sky(latitude, longitude, time, city_name)
CallRenderSky ==
    /\ pc = "idle"
    /\ calls < 2
    /\ \E latitude \in {407128, 1000000}, longitude \in {-740060},
          t \in {None, Some(0)} :
          frame' = [latitude |-> latitude, longitude |-> longitude,
                    time_arg |-> t, time |-> t, city_name |-> "",
                    save_path |-> "", caller |-> "library"]
    /\ calls' = calls + 1
    /\ raised' = ""
    /\ pc' = "render_sky"
    /\ UNCHANGED main_vars
    /\ UNCHANGED << clock, catalog, positions, ax, saved, sky_seen, history >>
    /\ UNCHANGED fn_vars

NextCompose ==
    \/ CallRenderSky
    \/ RenderSky

SpecCompose == InitCompose /\ [][NextCompose]_vars

\* ------------------------------------------------------------------------
\* The pure functions, each applied once to inputs drawn from bounded sets
\* ------------------------------------------------------------------------

InitFn ==
    /\ pc = "fn"
    /\ args = NoArgs
    /\ InitCommon

Magnitudes == (0 - MaxMag10)..(MaxMag10 + 10 * magnitude_range)

\* renderer.calculate_star_size applied to two magnitudes
ApplyCalculateStarSize ==
    /\ pc = "fn"
    /\ fn = ""
    /\ \E m1 \in Magnitudes, m2 \in Magnitudes :
          /\ fn_arg' = <<m1, m2>>
          /\ fn_ret' = <<calculate_star_size(m1), calculate_star_size(m2)>>
    /\ fn' = "calculate_star_size"
    /\ UNCHANGED << pc, clock, raised >>
    /\ UNCHANGED main_vars /\ UNCHANGED render_vars

\* sky_calc.get_horizon_circle(num_points)
ApplyGetHorizonCircle ==
    /\ pc = "fn"
    /\ fn = ""
    /\ \E num_points \in NumPointsSet :
          /\ fn_arg' = <<num_points>>
          /\ fn_ret' = get_horizon_circle(num_points)
    /\ fn' = "get_horizon_circle"
    /\ UNCHANGED << pc, clock, raised >>
    /\ UNCHANGED main_vars /\ UNCHANGED render_vars

\* the altitudes and azimuths the trigonometric tables cover
Altitudes == {30 * k - 90 : k \in 0..6}
Azimuths == {15 * k : k \in 0..24}

\* sky_calc.project_to_stereographic and renderer.project_star_position
\* applied to one horizontal point
ApplyProject ==
    /\ pc = "fn"
    /\ fn = ""
    /\ \E altitude \in Altitudes, azimuth \in Azimuths :
          /\ fn_arg' = <<altitude, azimuth>>
          /\ fn_ret' = << project_to_stereographic(altitude, azimuth),
                          project_star_position(altitude, azimuth) >>
    /\ fn' = "project"
    /\ UNCHANGED << pc, clock, raised >>
    /\ UNCHANGED main_vars /\ UNCHANGED render_vars

\* the horizontal points of the three cells when one of them is overhead
ZenithPoints == { <<90, 0>>, <<0, 180>>, <<-90, 0>> }

\* the transform at one location over the instants 0 and t: at each instant
\* a one-to-one map of the cells onto the horizontal points
ZenithSkies(latitude, longitude, t) ==
    { f \in [{ << cell, latitude, longitude, i >> : cell \in 0..2, i \in {0, t} }
                -> ZenithPoints] :
        \A i \in {0, t} : \A c1, c2 \in 0..2 :
            c1 # c2 => f[<< c1, latitude, longitude, i >>]
                       # f[<< c2, latitude, longitude, i >>] }

\* sky_calc.get_zenith_ra_dec(time) followed by
\* sky_calc.celestial_to_horizontal(ra, dec, time) at the same instant
ApplyZenithRoundTrip ==
    /\ pc = "fn"
    /\ fn = ""
    /\ \E latitude \in {407128, -338688}, longitude \in {-740060},
          t \in {60 * k : k \in 1..MaxClock} :
          /\ SkyCalculator_init_ok(latitude, longitude)
          /\ \E f \in ZenithSkies(latitude, longitude, t) :
                LET zenith == get_zenith_ra_dec(f, latitude, longitude, t)
                IN  /\ sky_seen' = f
                    /\ fn_arg' = << latitude, longitude, t >>
                    /\ fn_ret' = zenith \o celestial_to_horizontal(
                                     f, latitude, longitude, zenith[1],
                                     zenith[2], t)
    /\ fn' = "zenith_round_trip"
    /\ UNCHANGED << pc, clock, raised >>
    /\ UNCHANGED main_vars
    /\ UNCHANGED << frame, catalog, positions, ax, saved, calls, history >>

\* detector.detect_location(fallback_to_manual) on a new LocationDetector
ApplyDetectLocation ==
    /\ pc = "fn"
    /\ fn = ""
    /\ \E env \in Environments, fallback_to_manual \in BOOLEAN :
          /\ fn_arg' = << env, fallback_to_manual >>
          /\ fn_ret' = detect_location(LocationDetector, env, fallback_to_manual)
    /\ fn' = "detect_location"
    /\ UNCHANGED << pc, clock, raised >>
    /\ UNCHANGED main_vars /\ UNCHANGED render_vars

\* StarCatalog(): the constructor with one outcome of the remote load
ApplyStarCatalog ==
    /\ pc = "fn"
    /\ fn = ""
    /\ \E load \in LoadOutcomes :
          /\ fn_arg' = << load >>
          /\ fn_ret' = [catalog |-> StarCatalog(load.ok, load.rows),
                        raised |-> load_data_raises(load.ok)]
    /\ fn' = "StarCatalog"
    /\ UNCHANGED << pc, clock, raised >>
    /\ UNCHANGED main_vars /\ UNCHANGED render_vars

NextFn ==
    \/ ApplyCalculateStarSize
    \/ ApplyGetHorizonCircle
    \/ ApplyProject
    \/ ApplyZenithRoundTrip
    \/ ApplyDetectLocation
    \/ ApplyStarCatalog

SpecFn == InitFn /\ [][NextFn]_vars

\* ========================================================================
\* Properties
\* ========================================================================

IsStarPoint(p) == p.kind = "scatter" /\ p.text = "*"
IsLineSegment(p) == p.kind = "plot"
StarPoints(drawn) == SelectSeq(drawn, IsStarPoint)
LineSegments(drawn) == SelectSeq(drawn, IsLineSegment)

\* control is in render_sky (or back in main) with the stars drawn
AfterStars ==
    pc \in {"draw_constellation_lines", "add_title_and_info", "save",
            "main_returned"}
\* ... and with the constellation lines drawn
AfterLines == pc \in {"add_title_and_info", "save", "main_returned"}

\* where the star id is plotted
PlotXY(id) ==
    project_star_position(positions.val[id].altitude, positions.val[id].azimuth)

\* x*x + y*y <= 4 (boundLimit = 2)
InsidePlotBound(id) ==
    PlotXY(id)[1] * PlotXY(id)[1] + PlotXY(id)[2] * PlotXY(id)[2] <= 4000000

\* the rule of the visibility invariant
Qualifies(id) ==
    /\ id \in DOMAIN positions.val
    /\ positions.val[id].altitude > 0
    /\ InsidePlotBound(id)

XYOf(p) == << p.at[1], p.at[2] >>

\* C1: once draw_stars has run, the star points on the axes are exactly the
\* stars with altitude > 0 and x*x + y*y <= 4, each of them once: as many
\* points as qualifying stars, every point at the position of a qualifying
\* star, and at every position as many points as qualifying stars there.
C1_StarsDrawnIffVisibleAndInBound ==
    AfterStars =>
        LET pts == StarPoints(ax)
            Q == {id \in DOMAIN positions.val : Qualifies(id)}
        IN  /\ Len(pts) = Cardinality(Q)
            /\ \A i \in 1..Len(pts) : \E id \in Q : XYOf(pts[i]) = PlotXY(id)
            /\ \A id \in Q :
                  Cardinality({i \in 1..Len(pts) : XYOf(pts[i]) = PlotXY(id)})
                  = Cardinality({j \in Q : PlotXY(j) = PlotXY(id)})

\* C1 witness: a star above the horizon was drawn while a star below the
\* horizon but inside the plot bound (altitude -30, radius 1.73) was not
C1_Witness ==
    /\ pc = "draw_constellation_lines"
    /\ StarPoints(ax) # <<>>
    /\ \E a, b \in DOMAIN positions.val :
          /\ positions.val[a].altitude > 0
          /\ positions.val[b].altitude = -30
          /\ InsidePlotBound(b)

\* every edge of every constellation, in drawing order
RECURSIVE AllEdges(_)
AllEdges(constellations) ==
    IF constellations = <<>> THEN <<>>
    ELSE Head(constellations).lines \o AllEdges(Tail(constellations))

BothDrawable(edge) == Qualifies(edge[1]) /\ Qualifies(edge[2])

SegmentOf(edge) ==
    Plot(PlotXY(edge[1])[1], PlotXY(edge[1])[2],
         PlotXY(edge[2])[1], PlotXY(edge[2])[2])

\* C2: once draw_constellation_lines has run, the line segments on the axes
\* are exactly the edges whose two ids are both keys of the star-position
\* map and both satisfy the rule that decides whether a star is drawn
\* (altitude > 0 and inside the plot bound), one segment per such edge.
C2_EdgeDrawnIffBothEndpointsDrawn ==
    AfterLines =>
        LET wanted == SelectSeq(AllEdges(catalog.constellations), BothDrawable)
        IN  LineSegments(ax) = [i \in 1..Len(wanted) |-> SegmentOf(wanted[i])]

\* C2 witness: an edge with both stars in the map, the first below the
\* horizon and the second above it, got no segment while another edge did
C2_Witness ==
    /\ pc = "add_title_and_info"
    /\ LineSegments(ax) # <<>>
    /\ \E i \in 1..Len(AllEdges(catalog.constellations)) :
          LET e == AllEdges(catalog.constellations)[i]
          IN  /\ e[1] \in DOMAIN positions.val
              /\ e[2] \in DOMAIN positions.val
              /\ positions.val[e[1]].altitude < 0
              /\ positions.val[e[2]].altitude > 0
              /\ \A k \in 1..Len(LineSegments(ax)) :
                    LineSegments(ax)[k] # SegmentOf(e)

\* the paint category of a primitive: background, horizon circle and rings,
\* cardinal labels, star points, constellation lines, title and zenith marker
Rank(p) ==
    CASE p.kind = "figure" -> 0
      [] p.kind = "patch" -> 1
      [] p.kind = "text" /\ p.text \in {"North", "East", "South", "West"} -> 2
      [] p.kind = "scatter" /\ p.text = "*" -> 3
      [] p.kind = "plot" -> 4
      [] OTHER -> 5

\* C3: at every moment of a render the primitives emitted so far are in paint
\* order: no primitive of an earlier category follows one of a later category.
C3_PaintOrder ==
    \A i, j \in 1..Len(ax) : i < j => Rank(ax[i]) <= Rank(ax[j])

\* C3 witness: a finished chart holding primitives of all six categories
C3_Witness ==
    /\ pc = "save"
    /\ {Rank(ax[i]) : i \in 1..Len(ax)} = 0..5

\* two finished calls had identical inputs: the same catalog contents, the
\* same latitude and longitude, the same explicit instant (and city name)
SameInputs(a, b) ==
    /\ a.stars = b.stars
    /\ a.latitude = b.latitude
    /\ a.longitude = b.longitude
    /\ a.time_arg.some /\ b.time_arg.some
    /\ a.time_arg = b.time_arg
    /\ a.city_name = b.city_name

\* C4: any two finished render_sky calls on one renderer with identical
\* inputs produced identical sequences of primitives (and the same outcome).
C4_SameInputsSameOutput ==
    \A i, j \in 1..Len(history) :
        SameInputs(history[i], history[j]) =>
            /\ history[i].ax = history[j].ax
            /\ history[i].raised = history[j].raised

\* C4 witness: two calls with identical inputs both returned a chart with
\* star points and constellation lines
C4_Witness ==
    /\ Len(history) = 2
    /\ SameInputs(history[1], history[2])
    /\ history[1].raised = "" /\ history[2].raised = ""
    /\ StarPoints(history[2].ax) # <<>>
    /\ LineSegments(history[2].ax) # <<>>

\* no star of the position map is above the horizon (true of an empty map)
NothingVisible == \A id \in DOMAIN positions.val : positions.val[id].altitude <= 0

\* what each primitive of a chart without stars is
BareChart ==
    << <<"figure", "#000011">>, <<"patch", "-">>, <<"patch", "--">>,
       <<"patch", "--">>, <<"text", "North">>, <<"text", "East">>,
       <<"text", "South">>, <<"text", "West">>, <<"text", "Night Sky View">>,
       <<"scatter", "+">>, <<"text", "Zenith">> >>

KindOf(p) == << p.kind, IF p.kind = "patch" THEN p.note ELSE p.text >>

\* C5: when the star positions were computed and the catalog is empty or no
\* star has altitude > 0, nothing is raised and the finished chart is exactly
\* background, horizon circle, two rings, four cardinal labels, title, zenith
\* marker and zenith label: no star point and no line segment.
C5_NoVisibleStarsBareChart ==
    (pc \in {"draw_stars", "draw_constellation_lines", "add_title_and_info",
             "save", "main_returned"} /\ NothingVisible) =>
        /\ raised = ""
        /\ StarPoints(ax) = <<>>
        /\ LineSegments(ax) = <<>>
        /\ pc \in {"save", "main_returned"} =>
              [i \in 1..Len(ax) |-> KindOf(ax[i])] = BareChart

\* C5 witness: a chart finished for a catalog that has stars, none of them
\* above the horizon and one of them exactly on it
C5_Witness ==
    /\ pc = "main_returned"
    /\ positions.keys # <<>>
    /\ NothingVisible
    /\ \E id \in DOMAIN positions.val : positions.val[id].altitude = 0

BothKnown(edge) ==
    edge[1] \in DOMAIN positions.val /\ edge[2] \in DOMAIN positions.val

\* the constellation table without the edges that name an unknown star
RECURSIVE WithoutUnknown(_)
WithoutUnknown(constellations) ==
    IF constellations = <<>> THEN <<>>
    ELSE << [name |-> Head(constellations).name,
             lines |-> SelectSeq(Head(constellations).lines, BothKnown)] >>
         \o WithoutUnknown(Tail(constellations))

\* C6: drawing the constellation lines raises nothing, and the segments
\* drawn are those drawn for the table with every edge that names a star id
\* absent from the catalog removed from it.
C6_UnknownStarEdgeSkipped ==
    AfterLines =>
        /\ raised = ""
        /\ LineSegments(ax) =
              draw_constellation_lines(WithoutUnknown(catalog.constellations),
                                       positions)

\* C6 witness: an edge naming an absent star precedes, in the same
\* constellation, an edge that was drawn
C6_Witness ==
    /\ pc = "add_title_and_info"
    /\ \E c \in 1..Len(catalog.constellations) :
          LET lines == catalog.constellations[c].lines
          IN  \E i, j \in 1..Len(lines) :
                 /\ i < j
                 /\ ~BothKnown(lines[i])
                 /\ BothKnown(lines[j])
                 /\ BothDrawable(lines[j])
                 /\ \E k \in 1..Len(LineSegments(ax)) :
                       LineSegments(ax)[k] = SegmentOf(lines[j])

\* the latitude of the current render request is outside [-90, 90]
MalformedLatitude == calls > 0 /\ ~(frame.latitude >= -900000 /\ frame.latitude <= 900000)
\* a star of the catalog in use has a declination outside [-90, 90]
MalformedDeclination ==
    \E id \in DOMAIN catalog.stars.val :
        ~(catalog.stars.val[id].dec >= -90000 /\ catalog.stars.val[id].dec <= 90000)

\* C7: a render request with a latitude or a declination outside [-90, 90]
\* never gets as far as drawing stars: no star position is computed, no star
\* point and no segment is emitted, and once the request is over it has
\* ended in ValueError, which main reports with exit status 1.
C7_MalformedInputFailsFast ==
    ((MalformedLatitude /\ pc # "render_sky") \/ MalformedDeclination) =>
        /\ positions = NoPositions
        /\ StarPoints(ax) = <<>>
        /\ LineSegments(ax) = <<>>
        /\ pc \notin {"draw_stars", "draw_constellation_lines",
                      "add_title_and_info", "save", "main_returned"}
        /\ pc \in {"main_except", "exit"} => raised = "ValueError"
        /\ pc = "exit" => exit_status = Some(1)

\* C7 witness: main has exited with status 1 after the transform refused a
\* declination of 100 degrees at a well-formed latitude
C7_Witness ==
    /\ pc = "exit"
    /\ exit_status = Some(1)
    /\ raised = "ValueError"
    /\ MalformedDeclination
    /\ ~MalformedLatitude
    /\ ax # <<>>

\* C8: calculate_star_size never grows with the magnitude, is max_size at
\* every magnitude <= 0 and min_size at every magnitude >= magnitude_range,
\* so it stays within [min_size, max_size]; with the defaults it is 8 at
\* magnitude 0, 1 at magnitude 6 and 1 at magnitude 10 (sizes in sixtieths,
\* magnitudes in tenths).
C8_StarSizeMonotoneAndClamped ==
    fn = "calculate_star_size" =>
        /\ fn_arg[1] <= fn_arg[2] => fn_ret[1] >= fn_ret[2]
        /\ \A k \in 1..2 :
              /\ fn_arg[k] <= 0 => fn_ret[k] = 60 * max_size
              /\ fn_arg[k] >= 10 * magnitude_range => fn_ret[k] = 60 * min_size
              /\ fn_ret[k] >= 60 * min_size /\ fn_ret[k] <= 60 * max_size
              /\ fn_arg[k] = 0 => fn_ret[k] = 480
              /\ fn_arg[k] = 60 => fn_ret[k] = 60
              /\ fn_arg[k] = 100 => fn_ret[k] = 60

\* C8 witness: magnitude 3.0 gave size 4.5 and magnitude 10.0 gave size 1
C8_Witness ==
    /\ fn = "calculate_star_size"
    /\ fn_arg = <<30, 100>>
    /\ fn_ret = <<270, 60>>

\* main was started with --lat and without --lon (and without
\* --list-locations, --auto-location and --location, which come first)
LatWithoutLon ==
    /\ ~args.list_locations
    /\ ~args.auto_location
    /\ args.location = ""
    /\ args.lat.some
    /\ ~args.lon.some

C10_HalfOpenRange ==
    fn = "get_horizon_circle" =>
        LET n == fn_arg[1]
            az == fn_ret.azimuths
        IN  /\ Len(az) = n
            /\ \A i \in 1..Len(az) :
                  /\ az[i] * n = 360 * (i - 1)
                  /\ az[i] >= 0 /\ az[i] < 360
            /\ \A i, j \in 1..Len(az) : i # j => az[i] % 360 # az[j] % 360

\* C10: get_horizon_circle(num_points) returns exactly num_points points,
\* each the projection of altitude 0 (on the unit circle); for num_points
\* >= 2 their azimuths are spaced by 360 / (num_points - 1) over the closed
\* range [0, 360], so the last point is sampled at 360 and coincides with
\* the first; for num_points = 1 the only azimuth is 0.
C10_ClosedRange ==
    fn = "get_horizon_circle" =>
        LET n == fn_arg[1]
            az == fn_ret.azimuths
            xs == fn_ret.x_coords
            ys == fn_ret.y_coords
        IN  /\ Len(az) = n /\ Len(xs) = n /\ Len(ys) = n
            /\ \A i \in 1..n :
                  /\ az[i] * Max(n - 1, 1) = 360 * (i - 1)
                  /\ << xs[i], ys[i] >> = project_to_stereographic(0, az[i])
                  /\ xs[i] * xs[i] + ys[i] * ys[i] >= 998000
                  /\ xs[i] * xs[i] + ys[i] * ys[i] <= 1002000
            /\ n >= 2 =>
                  /\ az[1] = 0 /\ az[n] = 360
                  /\ xs[n] = xs[1] /\ ys[n] = ys[1]

\* C10 witness: five points were asked for and the fifth is at azimuth 360
C10_Witness ==
    /\ fn = "get_horizon_circle"
    /\ fn_arg = << 5 >>
    /\ fn_ret.azimuths = << 0, 90, 180, 270, 360 >>

\* x*x + y*y of a projected point, in millionths
RadiusSquared(p) == p[1] * p[1] + p[2] * p[2]

\* C11: the projected radius is 0 at altitude 90 (the origin, whatever the
\* azimuth), 1 at altitude 0 (to the rounding of the tables), below 1 for
\* every altitude in (0, 90] and above 1 for every altitude in (-90, 0), so a
\* point is inside the unit circle iff its altitude is positive; the two
\* projection functions agree.
C11_ProjectionRadius ==
    fn = "project" =>
        LET altitude == fn_arg[1]
        IN  /\ fn_ret[1] = fn_ret[2]
            /\ \A k \in 1..2 :
                  /\ altitude = 90 => fn_ret[k] = <<0, 0>>
                  /\ altitude = 0 =>
                        /\ RadiusSquared(fn_ret[k]) >= 998000
                        /\ RadiusSquared(fn_ret[k]) <= 1002000
                  /\ (altitude > 0 /\ altitude <= 90) =>
                        RadiusSquared(fn_ret[k]) < 998000
                  /\ (altitude > -90 /\ altitude < 0) =>
                        RadiusSquared(fn_ret[k]) > 1002000
                  /\ RadiusSquared(fn_ret[k]) < 998000 <=> altitude > 0

\* C11 witness: altitude -30 at azimuth 135 was projected outside the unit
\* circle, at radius 1.732
C11_Witness ==
    /\ fn = "project"
    /\ fn_arg = <<-30, 135>>
    /\ fn_ret[1] = <<1224, -1225>>
    /\ RadiusSquared(fn_ret[2]) > 1002000

\* a position computed for some star is the nadir
AtNadir(id) == id \in DOMAIN positions.val /\ positions.val[id].altitude = -90

EndsAt(segment, xy) ==
    << segment.at[1], segment.at[2] >> = xy \/ << segment.at[3], segment.at[4] >> = xy

\* C12: a star at altitude exactly -90 raises nothing, its projected radius
\* is a large finite number beyond the plot limit, it is flagged not
\* visible, and it is never a star point nor an endpoint of a line segment.
C12_NadirCulled ==
    \A id \in DOMAIN positions.val :
        (AtNadir(id) /\ (AfterStars \/ pc = "draw_stars")) =>
            /\ raised = ""
            /\ ~positions.val[id].visible
            /\ RadiusSquared(PlotXY(id)) > 4000000
            /\ RadiusSquared(PlotXY(id)) <= TanHuge * TanHuge
            /\ \A i \in 1..Len(ax) :
                  /\ IsStarPoint(ax[i]) => XYOf(ax[i]) # PlotXY(id)
                  /\ IsLineSegment(ax[i]) => ~EndsAt(ax[i], PlotXY(id))

\* C12 witness: a chart with star points and line segments was finished for
\* a catalog with a star at the nadir
C12_Witness ==
    /\ pc = "save"
    /\ \E id \in DOMAIN positions.val : AtNadir(id)
    /\ StarPoints(ax) # <<>>
    /\ LineSegments(ax) # <<>>

\* C13: whatever the location, the time and the catalog, once the grid stage
\* has run the primitives after the background are the solid horizon circle
\* of radius 1 at the origin, the dashed rings of altitudes 30 and 60 (radii
\* 0.577 and 0.268), and the labels North, East, South, West at azimuths 0,
\* 90, 180, 270 and radius 1.1, in this order; and the azimuth table is the
\* same constant.
C13_GridStage ==
    (pc \in {"calculate_star_positions", "draw_stars",
             "draw_constellation_lines", "add_title_and_info", "save",
             "main_returned"}
     \/ (pc \in {"main_except", "exit"} /\ Len(ax) > 1)) =>
        /\ Len(ax) >= 8
        /\ SubSeq(ax, 2, 8) =
              << Circle(1000, "-"), Circle(577, "--"), Circle(268, "--"),
                 Text(0, 1100, "North", <<>>), Text(1100, 0, "East", <<>>),
                 Text(0, -1100, "South", <<>>), Text(-1100, 0, "West", <<>>) >>
        /\ \A i \in 9..Len(ax) :
              ax[i].kind # "patch" /\ Rank(ax[i]) # 2
        /\ get_cardinal_directions =
              << <<"North", 0>>, <<"East", 90>>, <<"South", 180>>,
                 <<"West", 270>> >>

\* C13 witness: the grid was drawn for an observer in New York at a time
\* given on the command line, and the stars are about to be computed
C13_Witness ==
    /\ pc = "calculate_star_positions"
    /\ Len(ax) = 8
    /\ frame.latitude = 407128
    /\ args.time = "2024-07-15 22:00:00"

MacosSucceeds(env) == env.macos = "ok"
IpSucceeds(env) == \E i \in 1..3 : env.ip[i] \in {"ok", "null"}
ManualSucceeds(env) == env.manual = "ok"

MethodSucceeds(method, env) ==
    CASE method = "macos" -> MacosSucceeds(env)
      [] method = "ip" -> IpSucceeds(env)
      [] OTHER -> ManualSucceeds(env)

\* C15: the methods attempted are, in this order, macOS location services
\* (iff the platform is Darwin), IP geolocation (iff macOS was not attempted
\* or failed), manual input (iff those failed and fallback_to_manual is
\* True); True is returned exactly when the last attempted method succeeded,
\* every method before it having failed, and False only when every attempted
\* method failed.
C15_DetectionOrder ==
    fn = "detect_location" =>
        LET env == fn_arg[1]
            fallback_to_manual == fn_arg[2]
            tried == fn_ret.det.tried
            macos_found == env.darwin /\ MacosSucceeds(env)
        IN  /\ tried =
                  (IF env.darwin THEN << "macos" >> ELSE <<>>)
                  \o (IF macos_found THEN <<>> ELSE << "ip" >>)
                  \o (IF ~macos_found /\ ~IpSucceeds(env) /\ fallback_to_manual
                      THEN << "manual" >> ELSE <<>>)
            /\ \A i \in 1..(Len(tried) - 1) : ~MethodSucceeds(tried[i], env)
            /\ fn_ret.ret = "True" <=> MethodSucceeds(tried[Len(tried)], env)
            /\ fn_ret.ret = "False" =>
                  \A i \in 1..Len(tried) : ~MethodSucceeds(tried[i], env)
            /\ ~fallback_to_manual =>
                  \A i \in 1..Len(tried) : tried[i] # "manual"

\* C15 witness: on Darwin with fallback_to_manual False, macOS location
\* services and IP geolocation failed, a manual answer was ready but was
\* never requested, and False was returned
C15_Witness ==
    /\ fn = "detect_location"
    /\ fn_arg[1].darwin /\ ~fn_arg[2]
    /\ fn_arg[1].manual = "ok"
    /\ fn_ret.det.tried = << "macos", "ip" >>
    /\ fn_ret.ret = "False"

\* C16: when the remote load fails, at whatever step, the constructor
\* raises nothing, every star of the sample dataset is in the star map with
\* its sample ra, dec and magnitude, and the constellation table is the three
\* built-in constellations.
C16_FallbackCatalog ==
    (fn = "StarCatalog" /\ ~fn_arg[1].ok) =>
        /\ fn_ret.raised = ""
        /\ \A i \in 1..Len(sample_stars) :
              /\ sample_stars[i].hip_id \in DOMAIN fn_ret.catalog.stars.val
              /\ fn_ret.catalog.stars.val[sample_stars[i].hip_id] = sample_stars[i]
        /\ Len(sample_stars) = 18
        /\ [c \in 1..Len(fn_ret.catalog.constellations) |->
               fn_ret.catalog.constellations[c].name]
              = << "Ursa Major", "Orion", "Cassiopeia" >>
        /\ fn_ret.catalog.constellations = load_constellation_data

\* C16 witness: the load failed after it had inserted a row for star 50801
\* with other coordinates, and the catalog holds the sample Dubhe
C16_Witness ==
    /\ fn = "StarCatalog"
    /\ ~fn_arg[1].ok
    /\ \E i \in 1..Len(fn_arg[1].rows) :
          /\ fn_arg[1].rows[i].hip_id = 50801
          /\ fn_arg[1].rows[i].ra # 165931
    /\ fn_ret.catalog.stars.val[50801].ra = 165931
    /\ 99999 \in DOMAIN fn_ret.catalog.stars.val

\* C17: every line segment on the axes starts and ends where the same
\* render drew a star point.
C17_LinesEndAtDrawnStars ==
    AfterLines =>
        \A k \in 1..Len(ax) :
            IsLineSegment(ax[k]) =>
                /\ \E i \in 1..Len(ax) :
                      IsStarPoint(ax[i])
                         /\ XYOf(ax[i]) = << ax[k].at[1], ax[k].at[2] >>
                /\ \E j \in 1..Len(ax) :
                      IsStarPoint(ax[j])
                         /\ XYOf(ax[j]) = << ax[k].at[3], ax[k].at[4] >>

\* C17 witness: a segment joins two different positions, at each of which a
\* star point was drawn
C17_Witness ==
    /\ pc = "save"
    /\ \E k \in 1..Len(ax) :
          /\ IsLineSegment(ax[k])
          /\ << ax[k].at[1], ax[k].at[2] >> # << ax[k].at[3], ax[k].at[4] >>
          /\ \E i, j \in 1..Len(ax) :
                /\ IsStarPoint(ax[i]) /\ IsStarPoint(ax[j])
                /\ XYOf(ax[i]) = << ax[k].at[1], ax[k].at[2] >>
                /\ XYOf(ax[j]) = << ax[k].at[3], ax[k].at[4] >>

SampleIds == { sample_stars[i].hip_id : i \in 1..Len(sample_stars) }

\* the catalog of the current render is the fallback catalog
UsesFallback ==
    /\ catalog # NoCatalog
    /\ \A i \in 1..Len(sample_stars) :
          /\ sample_stars[i].hip_id \in DOMAIN catalog.stars.val
          /\ catalog.stars.val[sample_stars[i].hip_id] = sample_stars[i]

\* C18: every star id of every edge of the built-in constellation table is
\* a key of the sample dataset; so with the fallback catalog in use every
\* edge finds both its stars in the catalog and in the position map.
C18_BuiltInEdgesKnown ==
    /\ \A i \in 1..Len(AllEdges(load_constellation_data)) :
          /\ AllEdges(load_constellation_data)[i][1] \in SampleIds
          /\ AllEdges(load_constellation_data)[i][2] \in SampleIds
    /\ UsesFallback =>
          \A i \in 1..Len(AllEdges(catalog.constellations)) :
              LET e == AllEdges(catalog.constellations)[i]
              IN  /\ e[1] \in DOMAIN catalog.stars.val
                  /\ e[2] \in DOMAIN catalog.stars.val
                  /\ AfterStars => BothKnown(e)

\* C18 witness: with the fallback catalog in use and the whole sky above
\* the horizon, all sixteen edges were drawn
C18_Witness ==
    /\ pc = "save"
    /\ UsesFallback
    /\ Len(AllEdges(catalog.constellations)) = 16
    /\ Len(LineSegments(ax)) = 16

\* C19: during one render_sky call the instant is the supplied time, or
\* the clock reading taken when it was resolved, and the clock has not been
\* read since; every star position is the transform's value at that
\* instant, and the title shows that instant.
C19_SingleInstant ==
    /\ pc \in {"create_figure", "draw_horizon_and_grid",
               "calculate_star_positions", "draw_stars",
               "draw_constellation_lines", "add_title_and_info", "save"} =>
          /\ frame.time.some
          /\ frame.time_arg.some => frame.time = frame.time_arg
          /\ ~frame.time_arg.some => frame.time.v = 60 * clock
    /\ pc \in {"draw_stars", "draw_constellation_lines", "add_title_and_info",
               "save"} =>
          \A id \in DOMAIN positions.val :
              << positions.val[id].altitude, positions.val[id].azimuth >>
              = sky_seen[SkyKey(positions.val[id].ra, positions.val[id].dec,
                                frame.latitude, frame.longitude, frame.time.v)]
    /\ pc = "save" =>
          /\ \E i \in 1..Len(ax) : ax[i].text = "Night Sky View"
          /\ \A i \in 1..Len(ax) :
                ax[i].text = "Night Sky View" =>
                    ax[i].at[5] = FormatMinutes(frame.time.v)

\* C19 witness: a second chart, drawn without a supplied time, is complete;
\* its instant was read from the clock and differs from the first chart's,
\* and the sky at the two instants differs for some star
C19_Witness ==
    /\ pc = "save"
    /\ calls = 2
    /\ ~frame.time_arg.some
    /\ Len(history) = 1
    /\ history[1].raised = ""
    /\ history[1].time # frame.time.v
    /\ history[1].latitude = frame.latitude
    /\ StarPoints(history[1].ax) # StarPoints(ax)

\* C20 as written: detect_location returns True only with latitude and
\* longitude both set, and False only with both still None.
C20_CoordinatesAllOrNothing ==
    fn = "detect_location" =>
        /\ fn_ret.ret = "True" =>
              fn_ret.det.latitude.some /\ fn_ret.det.longitude.some
        /\ fn_ret.ret = "False" =>
              ~fn_ret.det.latitude.some /\ ~fn_ret.det.longitude.some

=============================================================================
